---- MODULE Spec2Model ----
(***************************************************************************)
(* A model of the synchronous GARP SDK client (sdk-py/garp_sdk/client.py): *)
(* the JSON-RPC facade, the REST bridge operations and the batch call of   *)
(* GarpClient, together with the dataclasses of types.py.                  *)
(*                                                                         *)
(* Every facade method is one action: it builds its request, hands it to   *)
(* the HTTP session, and turns the reply into a returned value or a raised *)
(* exception.  The server and the network are the environment: the reply   *)
(* to each request is chosen from a small set of replies.                  *)
(***************************************************************************)
EXTENDS Integers, Sequences, FiniteSets, TLC

\* Bounds of the model.
MaxCalls == 3      \* facade calls made on the one client instance
MaxBatch == 2      \* elements of the list given to batch

(***************************************************************************)
(* Python values (decoded JSON), tagged by their type.                     *)
(***************************************************************************)
None == [t |-> "NoneType"]
PyInt(n) == [t |-> "int", i |-> n]
PyStr(s) == [t |-> "str", s |-> s]
PyBool(b) == [t |-> "bool", b |-> b]
PyList(s) == [t |-> "list", l |-> s]
PyDict(f) == [t |-> "dict", d |-> f]
EmptyDict == [k \in {} |-> None]

\* `key in d` for a dict d.
Has(d, key) == key \in DOMAIN d.d

\* d.get(key, default) for a dict d.
Get(d, key, default) == IF key \in DOMAIN d.d THEN d.d[key] ELSE default

\* Python truthiness (`x or y`, `not x`).
Truthy(x) ==
  CASE x.t = "NoneType" -> FALSE
    [] x.t = "int" -> x.i # 0
    [] x.t = "str" -> x.s # ""
    [] x.t = "bool" -> x.b
    [] x.t = "list" -> Len(x.l) > 0
    [] x.t = "dict" -> DOMAIN x.d # {}

\* How a call ends: a returned value or a raised exception.
Return(value) == [kind |-> "return", value |-> value]
Raise(exc, msg, arg) == [kind |-> "raise", exc |-> exc, msg |-> msg, arg |-> arg]

(***************************************************************************)
(* The HTTP session.  A reply is what the network and the server give to   *)
(* one request: the request fails on the network, or a response comes back *)
(* with a status and a body (a JSON value, or bytes that are not JSON).    *)
(***************************************************************************)
NotJson == [t |-> "invalid"]
NetworkFailure == [fail |-> TRUE, status |-> 0, body |-> NotJson]
Response(status, body) == [fail |-> FALSE, status |-> status, body |-> body]

\* session.post / session.get, response.raise_for_status(), response.json()
HttpExchange(reply) ==
  IF reply.fail THEN Raise("ConnectionError", "", None)
  ELSE IF reply.status >= 400 THEN Raise("HTTPError", "", PyInt(reply.status))
  ELSE IF reply.body = NotJson THEN Raise("JSONDecodeError", "", None)
  ELSE Return(reply.body)

Request(verb, url, json) == [verb |-> verb, url |-> url, json |-> json]

\* What a facade method did: the requests it sent on the session, how the
\* _rpc call inside it ended, how the method itself ended, and whether it
\* invoked a dataclass constructor on the result.
NoRpc == [kind |-> "none"]
Done(sent, rpc, out, mapped) == [sent |-> sent, rpc |-> rpc, out |-> out, mapped |-> mapped]

(***************************************************************************)
(* GarpClient._rpc                                                         *)
(***************************************************************************)
rpc_payload(method, params) ==
  PyDict("jsonrpc" :> PyStr("2.0") @@ "id" :> PyInt(1) @@ "method" :> PyStr(method)
         @@ "params" :> (IF Truthy(params) THEN params ELSE PyList(<<>>)))

\* rpc_decode with `result` looked at before `error`: a response that
\* carries both is returned as a value.
rpc_decode_result_first(result) ==
  CASE result.t = "dict" ->
         IF Has(result, "result") THEN Return(result.d["result"])
         ELSE IF Has(result, "error")
         THEN Raise("Exception", "RPC error: ", result.d["error"])
         ELSE Return(None)
    [] result.t = "list" ->
         IF \E i \in 1..Len(result.l) : result.l[i] = PyStr("error")
         THEN Raise("TypeError", "list indices must be integers", None)
         ELSE Raise("AttributeError", "'list' object has no attribute 'get'", None)
    [] result.t \in {"NoneType", "int", "bool"} ->
         Raise("TypeError", "argument is not iterable", None)

\* rpc_decode ending in `return result.get("result") or None`: a falsy
\* result (0, "", [], {}) is returned as None.
rpc_decode_falsy(result) ==
  CASE result.t = "dict" ->
         IF Has(result, "error")
         THEN Raise("Exception", "RPC error: ", result.d["error"])
         ELSE IF Truthy(Get(result, "result", None))
         THEN Return(Get(result, "result", None))
         ELSE Return(None)
    [] result.t = "list" ->
         IF \E i \in 1..Len(result.l) : result.l[i] = PyStr("error")
         THEN Raise("TypeError", "list indices must be integers", None)
         ELSE Raise("AttributeError", "'list' object has no attribute 'get'", None)
    [] result.t \in {"NoneType", "int", "bool"} ->
         Raise("TypeError", "argument is not iterable", None)

\* Lines 35-39: the decoded response is turned into a value or an exception.
rpc_decode(result) ==
  CASE result.t = "dict" ->
         IF Has(result, "error")
         THEN Raise("Exception", "RPC error: ", result.d["error"])
         ELSE Return(Get(result, "result", None))
    [] result.t = "list" ->
         IF \E i \in 1..Len(result.l) : result.l[i] = PyStr("error")
         THEN Raise("TypeError", "list indices must be integers", None)
         ELSE Raise("AttributeError", "'list' object has no attribute 'get'", None)
    [] result.t \in {"NoneType", "int", "bool"} ->
         Raise("TypeError", "argument is not iterable", None)

_rpc(method, params, reply) ==
  LET sent == <<Request("POST", <<"/rpc">>, rpc_payload(method, params))>>
      http == HttpExchange(reply)
      out == IF http.kind = "raise" THEN http ELSE rpc_decode(http.value)
  IN  Done(sent, out, out, FALSE)

(***************************************************************************)
(* Dataclass construction from a dict, with the dict unpacked as keywords. *)
(***************************************************************************)
Fields(cls) ==
  CASE cls = "BlockInfo" ->
         {"slot", "hash", "parent_hash", "timestamp_ms", "leader", "transactions"}
    [] cls = "TransactionInfo" -> {"id", "submitter", "status", "created_at", "error"}
    [] cls = "SimulationResult" -> {"ok", "logs", "error"}

Required(cls) ==
  CASE cls = "BlockInfo" -> {"slot", "hash"}
    [] cls = "TransactionInfo" -> {"id"}
    [] cls = "SimulationResult" -> {"ok"}

Instance(cls, fields) == [t |-> cls, o |-> fields]

construct(cls, kwargs) ==
  IF kwargs.t # "dict"
  THEN Raise("TypeError", "argument after ** must be a mapping", None)
  ELSE IF DOMAIN kwargs.d \ Fields(cls) # {}
  THEN Raise("TypeError", "got an unexpected keyword argument", None)
  ELSE IF Required(cls) \ DOMAIN kwargs.d # {}
  THEN Raise("TypeError", "missing required positional argument", None)
  ELSE Return(Instance(cls, [f \in Fields(cls) |-> Get(kwargs, f, None)]))

(***************************************************************************)
(* The facade methods over _rpc.  An exception raised by _rpc leaves the   *)
(* method at once, so the method ends as _rpc ended.                       *)
(***************************************************************************)
get_slot(reply) == _rpc("getSlot", None, reply)

get_slot_leader(reply) == _rpc("getSlotLeader", None, reply)

get_block_by_slot(slot, reply) ==
  LET r == _rpc("getBlock", PyList(<<slot>>), reply)
  IN  IF r.out.kind = "raise" THEN r
      ELSE IF r.out.value = None THEN Done(r.sent, r.rpc, Return(None), FALSE)
      ELSE Done(r.sent, r.rpc, construct("BlockInfo", r.out.value), TRUE)

get_block_by_hash(hash_hex, reply) ==
  LET r == _rpc("getBlock", PyList(<<hash_hex>>), reply)
  IN  IF r.out.kind = "raise" THEN r
      ELSE IF r.out.value = None THEN Done(r.sent, r.rpc, Return(None), FALSE)
      ELSE Done(r.sent, r.rpc, construct("BlockInfo", r.out.value), TRUE)

\* get_transaction without `if result is None: return None`.
get_transaction_unguarded(tx_id_hex, reply) ==
  LET r == _rpc("getTransaction", PyList(<<tx_id_hex>>), reply)
  IN  IF r.out.kind = "raise" THEN r
      ELSE Done(r.sent, r.rpc, construct("TransactionInfo", r.out.value), TRUE)

get_transaction(tx_id_hex, reply) ==
  LET r == _rpc("getTransaction", PyList(<<tx_id_hex>>), reply)
  IN  IF r.out.kind = "raise" THEN r
      ELSE IF r.out.value = None THEN Done(r.sent, r.rpc, Return(None), FALSE)
      ELSE Done(r.sent, r.rpc, construct("TransactionInfo", r.out.value), TRUE)

send_transaction_raw(tx_serialized, reply) ==
  _rpc("sendTransaction", PyList(<<tx_serialized>>), reply)

simulate_transaction_raw(tx_serialized, reply) ==
  LET r == _rpc("simulateTransaction", PyList(<<tx_serialized>>), reply)
  IN  IF r.out.kind = "raise" THEN r
      ELSE Done(r.sent, r.rpc, construct("SimulationResult", r.out.value), TRUE)

get_balance(address_hex, reply) == _rpc("getBalance", PyList(<<address_hex>>), reply)

get_version(reply) == _rpc("getVersion", None, reply)

get_health(reply) == _rpc("getHealth", None, reply)

(***************************************************************************)
(* The REST bridge operations.                                             *)
(***************************************************************************)
\* result["data"] for a decoded body that is a dict.
data_of(result) ==
  IF Has(result, "data") THEN Return(result.d["data"])
  ELSE Raise("KeyError", "data", None)

\* value[key] where value is any decoded JSON value.
subscript(value, key) ==
  IF value.t # "dict" THEN Raise("TypeError", "not subscriptable by a string", None)
  ELSE IF Has(value, key) THEN Return(value.d[key])
  ELSE Raise("KeyError", key, None)

\* result.get(...) on a decoded body that is not a dict.
no_get(result) ==
  Raise("AttributeError", "object has no attribute 'get'", None)

initiate_bridge_transfer(args, reply) ==
  LET sent == <<Request("POST", <<"/api/v1/bridge/transfer">>, PyDict(args))>>
      http == HttpExchange(reply)
      result == http.value
      out == IF http.kind = "raise" THEN http
             ELSE IF result.t # "dict" THEN no_get(result)
             ELSE IF ~Truthy(Get(result, "success", None))
             THEN Raise("Exception", "Bridge transfer failed: ", Get(result, "error", None))
             ELSE IF data_of(result).kind = "raise" THEN data_of(result)
             ELSE subscript(data_of(result).value, "bridge_tx_id")
  IN  Done(sent, NoRpc, out, FALSE)

get_bridge_transfer_status(bridge_tx_id, reply) ==
  LET sent == <<Request("GET", <<"/api/v1/bridge/transfer", bridge_tx_id, "status">>, None)>>
      http == HttpExchange(reply)
      result == http.value
      out == IF http.kind = "raise" THEN http
             ELSE IF result.t # "dict" THEN no_get(result)
             ELSE IF ~Truthy(Get(result, "success", None))
             THEN Raise("Exception", "Failed to get bridge transfer status: ",
                        Get(result, "error", None))
             ELSE data_of(result)
  IN  Done(sent, NoRpc, out, FALSE)

add_asset_mapping(args, reply) ==
  LET sent == <<Request("POST", <<"/api/v1/bridge/assets">>, PyDict(args))>>
      http == HttpExchange(reply)
      result == http.value
      out == IF http.kind = "raise" THEN http
             ELSE IF result.t # "dict" THEN no_get(result)
             ELSE Return(Get(result, "success", PyBool(FALSE)))
  IN  Done(sent, NoRpc, out, FALSE)

get_asset_mapping(path, reply) ==
  LET sent == <<Request("GET", <<"/api/v1/bridge/assets">> \o path, None)>>
      http == HttpExchange(reply)
      result == http.value
      out == IF http.kind = "raise" THEN http
             ELSE IF result.t # "dict" THEN no_get(result)
             ELSE IF ~Truthy(Get(result, "success", None)) THEN Return(None)
             ELSE data_of(result)
  IN  Done(sent, NoRpc, out, FALSE)

(***************************************************************************)
(* GarpClient.batch                                                        *)
(***************************************************************************)
batch_payload(calls) ==
  PyList([i \in 1..Len(calls) |->
            PyDict("jsonrpc" :> PyStr("2.0") @@ "id" :> PyInt(i)
                   @@ "method" :> calls[i].d["method"]
                   @@ "params" :> Get(calls[i], "params", PyList(<<>>)))])

\* Line 201: [r.get("result") for r in results]
batch_decode(results) ==
  CASE results.t = "list" ->
         IF \E i \in 1..Len(results.l) : results.l[i].t # "dict"
         THEN no_get(results)
         ELSE Return(PyList([i \in 1..Len(results.l) |-> Get(results.l[i], "result", None)]))
    [] results.t = "dict" ->
         IF DOMAIN results.d = {} THEN Return(PyList(<<>>)) ELSE no_get(results)
    [] results.t \in {"NoneType", "int", "bool"} ->
         Raise("TypeError", "object is not iterable", None)

batch(calls, reply) ==
  LET sent == <<Request("POST", <<"/rpc">>, batch_payload(calls))>>
      http == HttpExchange(reply)
  IN  Done(sent, NoRpc,
           IF http.kind = "raise" THEN http ELSE batch_decode(http.value), FALSE)

(***************************************************************************)
(* Inputs of the calls and replies of the server.                          *)
(***************************************************************************)
Absent == [t |-> "absent"]

\* A dict with the given values under the given keys, a key left out when
\* its value is Absent.
DictOf(pairs) ==
  PyDict([k \in {q[1] : q \in {x \in pairs : x[2] # Absent}} |->
            (CHOOSE q \in pairs : q[1] = k)[2]])

ErrorObject == PyDict("code" :> PyInt(-32601) @@ "message" :> PyStr("not found"))
ErrorValues == {ErrorObject, None}

\* Results of the methods that return what _rpc returns.
PlainResults ==
  {None, PyInt(0), PyInt(5), PyStr(""), PyStr("0xabc"), PyList(<<>>),
   PyList(<<PyInt(1)>>), PyDict(EmptyDict), PyDict("k" :> PyInt(1))}

BlockResults ==
  {None, PyInt(5), PyDict(EmptyDict),
   PyDict("slot" :> PyInt(5)),
   PyDict("slot" :> PyInt(5) @@ "hash" :> PyStr("0xabc")),
   PyDict("slot" :> PyInt(5) @@ "hash" :> PyStr("0xabc") @@ "leader" :> PyStr("v1")),
   PyDict("slot" :> PyInt(5) @@ "hash" :> PyStr("0xabc") @@ "size" :> PyInt(2)),
   PyDict("slot" :> PyInt(5) @@ "hash" :> PyStr("0xabc") @@ "leader" :> PyStr("v1")
          @@ "size" :> PyInt(2))}

TransactionResults ==
  {None, PyStr("tx1"), PyDict(EmptyDict),
   PyDict("id" :> PyStr("tx1")),
   PyDict("id" :> PyStr("tx1") @@ "status" :> PyStr("ok")),
   PyDict("id" :> PyStr("tx1") @@ "fee" :> PyInt(1)),
   PyDict("status" :> PyStr("ok"))}

SimulationResults ==
  {None, PyList(<<>>), PyDict(EmptyDict),
   PyDict("ok" :> PyBool(TRUE)),
   PyDict("ok" :> PyBool(FALSE) @@ "error" :> PyStr("bad")),
   PyDict("ok" :> PyBool(TRUE) @@ "units" :> PyInt(3)),
   PyDict("logs" :> PyList(<<>>))}

\* The replies to a request that do not carry a decoded dict.
BrokenReplies ==
  {NetworkFailure, Response(500, NotJson), Response(200, NotJson),
   Response(200, None), Response(200, PyList(<<>>))}

\* The replies to one JSON-RPC request: a response object with or without
\* `result` and with or without `error`.
RpcReplies(results) ==
  BrokenReplies \cup
  {Response(200, DictOf({<<"id", PyInt(1)>>, <<"result", res>>, <<"error", err>>})) :
     res \in results \cup {Absent}, err \in ErrorValues \cup {Absent}}
  \cup {Response(404, DictOf({<<"id", PyInt(1)>>, <<"error", ErrorObject>>}))}

\* The replies of the REST bridge: {success, data, error}, each optional.
RestReplies ==
  BrokenReplies \cup
  {Response(200, DictOf({<<"success", ok>>, <<"data", data>>, <<"error", err>>})) :
     ok \in {Absent, PyBool(TRUE), PyBool(FALSE)},
     data \in {Absent, PyStr("confirmed"), PyDict("bridge_tx_id" :> PyStr("b1")),
               PyDict(EmptyDict)},
     err \in {Absent, PyStr("unknown asset")}}

Slots == {PyInt(5)}
Hashes == {PyStr("0xabc")}
TxIds == {PyStr("tx1")}
RawTxs == {PyStr("raw")}
Addresses == {PyStr("0xaddr")}

TransferArgs ==
  {"source_chain" :> PyStr("eth") @@ "source_tx_id" :> PyStr("tx1")
   @@ "target_chain" :> PyStr("garp") @@ "amount" :> PyInt(1)
   @@ "source_address" :> PyStr("0xa") @@ "target_address" :> PyStr("0xb")
   @@ "asset_id" :> PyStr("ETH")}

MappingArgs ==
  {"source_asset_id" :> PyStr("ETH") @@ "source_chain" :> PyStr("eth")
   @@ "target_asset_id" :> PyStr("wETH") @@ "target_chain" :> PyStr("garp")
   @@ "conversion_rate" :> PyInt(1)}

MappingPaths == {<<"eth", "ETH", "garp">>}

\* The lists given to batch: calls with and without a `params` key.
CallWithoutParams == PyDict("method" :> PyStr("getSlot"))
CallWithParams ==
  PyDict("method" :> PyStr("getBalance") @@ "params" :> PyList(<<PyStr("0xaddr")>>))

CallLists ==
  {[i \in 1..k |-> IF (i % 2 = 1) = first THEN CallWithoutParams ELSE CallWithParams] :
     k \in 0..MaxBatch, first \in BOOLEAN}

\* The response object of the batch element whose id is `id`.
ElementResponse(id, how) ==
  CASE how = "value" -> PyDict("id" :> PyInt(id) @@ "result" :> PyInt(100 + id))
    [] how = "null" -> PyDict("id" :> PyInt(id) @@ "result" :> None)
    [] how = "error" -> PyDict("id" :> PyInt(id) @@ "error" :> ErrorObject)

Orders(k) == {p \in [1..k -> 1..k] : \A i, j \in 1..k : p[i] = p[j] => i = j}

\* The replies to a batch of k requests: one response object per request,
\* in any order of the array.
BatchReplies(k) ==
  BrokenReplies \cup {Response(200, ErrorObject)} \cup
  {Response(200, PyList([i \in 1..k |-> ElementResponse(p[i], how[p[i]])])) :
     p \in Orders(k), how \in [1..k -> {"value", "null", "error"}]}

(***************************************************************************)
(* The client and its history.                                             *)
(***************************************************************************)
VARIABLES
  call,      \* the last facade call: the method and its arguments
  sent,      \* the requests the last call sent on the session
  reply,     \* the reply to the last request
  rpcOut,    \* how the _rpc call inside the last call ended
  outcome,   \* how the last call ended
  mapped,    \* whether the last call invoked a dataclass constructor
  rpcIds,    \* the ids of all requests sent through _rpc, in order
  nreq,      \* the number of requests sent on the session
  ncalls     \* the number of facade calls made

vars == <<call, sent, reply, rpcOut, outcome, mapped, rpcIds, nreq, ncalls>>

NoCall == [op |-> "none", args |-> <<>>]
NoReply == Response(0, NotJson)

Init ==
  /\ call = NoCall
  /\ sent = <<>>
  /\ reply = NoReply
  /\ rpcOut = NoRpc
  /\ outcome = NoRpc
  /\ mapped = FALSE
  /\ rpcIds = <<>>
  /\ nreq = 0
  /\ ncalls = 0

IdsOf(requests) == [i \in 1..Len(requests) |-> requests[i].json.d["id"].i]

\* One facade call, from its invocation to its return or exception.
Finish(op, args, rep, done, viaRpc) ==
  /\ call' = [op |-> op, args |-> args]
  /\ sent' = done.sent
  /\ reply' = rep
  /\ rpcOut' = done.rpc
  /\ outcome' = done.out
  /\ mapped' = done.mapped
  /\ rpcIds' = IF viaRpc THEN rpcIds \o IdsOf(done.sent) ELSE rpcIds
  /\ nreq' = nreq + Len(done.sent)
  /\ ncalls' = ncalls + 1

GetSlot ==
  /\ ncalls < MaxCalls
  /\ \E rep \in RpcReplies(PlainResults) :
      Finish("get_slot", <<>>, rep, get_slot(rep), TRUE)

GetSlotLeader ==
  /\ ncalls < MaxCalls
  /\ \E rep \in RpcReplies(PlainResults) :
      Finish("get_slot_leader", <<>>, rep, get_slot_leader(rep), TRUE)

GetBlockBySlot ==
  /\ ncalls < MaxCalls
  /\ \E slot \in Slots, rep \in RpcReplies(BlockResults) :
      Finish("get_block_by_slot", <<slot>>, rep, get_block_by_slot(slot, rep), TRUE)

GetBlockByHash ==
  /\ ncalls < MaxCalls
  /\ \E hash_hex \in Hashes, rep \in RpcReplies(BlockResults) :
      Finish("get_block_by_hash", <<hash_hex>>, rep, get_block_by_hash(hash_hex, rep), TRUE)

GetTransaction ==
  /\ ncalls < MaxCalls
  /\ \E tx \in TxIds, rep \in RpcReplies(TransactionResults) :
      Finish("get_transaction", <<tx>>, rep, get_transaction(tx, rep), TRUE)

SendTransactionRaw ==
  /\ ncalls < MaxCalls
  /\ \E tx \in RawTxs, rep \in RpcReplies(PlainResults) :
      Finish("send_transaction_raw", <<tx>>, rep, send_transaction_raw(tx, rep), TRUE)

SimulateTransactionRaw ==
  /\ ncalls < MaxCalls
  /\ \E tx \in RawTxs, rep \in RpcReplies(SimulationResults) :
      Finish("simulate_transaction_raw", <<tx>>, rep, simulate_transaction_raw(tx, rep), TRUE)

GetBalance ==
  /\ ncalls < MaxCalls
  /\ \E addr \in Addresses, rep \in RpcReplies(PlainResults) :
      Finish("get_balance", <<addr>>, rep, get_balance(addr, rep), TRUE)

GetVersion ==
  /\ ncalls < MaxCalls
  /\ \E rep \in RpcReplies(PlainResults) :
      Finish("get_version", <<>>, rep, get_version(rep), TRUE)

GetHealth ==
  /\ ncalls < MaxCalls
  /\ \E rep \in RpcReplies(PlainResults) :
      Finish("get_health", <<>>, rep, get_health(rep), TRUE)

InitiateBridgeTransfer ==
  /\ ncalls < MaxCalls
  /\ \E args \in TransferArgs, rep \in RestReplies :
      Finish("initiate_bridge_transfer", <<PyDict(args)>>, rep,
             initiate_bridge_transfer(args, rep), FALSE)

GetBridgeTransferStatus ==
  /\ ncalls < MaxCalls
  /\ \E rep \in RestReplies :
      Finish("get_bridge_transfer_status", <<PyStr("b1")>>, rep,
             get_bridge_transfer_status("b1", rep), FALSE)

AddAssetMapping ==
  /\ ncalls < MaxCalls
  /\ \E args \in MappingArgs, rep \in RestReplies :
      Finish("add_asset_mapping", <<PyDict(args)>>, rep, add_asset_mapping(args, rep), FALSE)

GetAssetMapping ==
  /\ ncalls < MaxCalls
  /\ \E path \in MappingPaths, rep \in RestReplies :
      Finish("get_asset_mapping", <<PyList(path)>>, rep, get_asset_mapping(path, rep), FALSE)

Batch ==
  /\ ncalls < MaxCalls
  /\ \E calls \in CallLists :
      \E rep \in BatchReplies(Len(calls)) :
        Finish("batch", calls, rep, batch(calls, rep), FALSE)

Next ==
  \/ GetSlot
  \/ GetSlotLeader
  \/ GetBlockBySlot
  \/ GetBlockByHash
  \/ GetTransaction
  \/ SendTransactionRaw
  \/ SimulateTransactionRaw
  \/ GetBalance
  \/ GetVersion
  \/ GetHealth
  \/ InitiateBridgeTransfer
  \/ GetBridgeTransferStatus
  \/ AddAssetMapping
  \/ GetAssetMapping
  \/ Batch

Spec == Init /\ [][Next]_vars

(***************************************************************************)
(* Vocabulary of the properties.                                           *)
(***************************************************************************)
UntypedOps ==
  {"get_slot", "get_slot_leader", "send_transaction_raw", "get_balance",
   "get_version", "get_health"}
LookupOps == {"get_block_by_slot", "get_block_by_hash", "get_transaction"}
TypedOps == LookupOps \cup {"simulate_transaction_raw"}
RpcOps == UntypedOps \cup TypedOps
NoParamOps == {"get_slot", "get_slot_leader", "get_version", "get_health"}
BridgeOps ==
  {"initiate_bridge_transfer", "get_bridge_transfer_status", "add_asset_mapping",
   "get_asset_mapping"}

ClassOf(op) ==
  CASE op \in {"get_block_by_slot", "get_block_by_hash"} -> "BlockInfo"
    [] op = "get_transaction" -> "TransactionInfo"
    [] op = "simulate_transaction_raw" -> "SimulationResult"

JsonTypes == {"NoneType", "int", "str", "bool", "list", "dict"}

\* The transport reported a failure: a network error or a non-2xx status.
TransportFailed == reply.fail \/ reply.status \notin 200..299

\* The last request was answered 2xx with a decoded JSON object.
ResponseObject == ~TransportFailed /\ reply.body.t = "dict"

\* The last request was answered 2xx with a decoded array holding exactly one
\* response object for each id of the batch.
BatchAnswered ==
  /\ call.op = "batch"
  /\ ~TransportFailed
  /\ reply.body.t = "list"
  /\ Len(reply.body.l) = Len(call.args)
  /\ \A i \in 1..Len(call.args) :
       \E j \in 1..Len(reply.body.l) : reply.body.l[j].d["id"] = PyInt(i)

\* The response object of the batch that carries the given id.
ResponseWithId(id) ==
  reply.body.l[CHOOSE j \in 1..Len(reply.body.l) : reply.body.l[j].d["id"] = PyInt(id)]

\* The response array lists the response objects in the order of their ids.
InIdOrder == \A i \in 1..Len(reply.body.l) : reply.body.l[i].d["id"] = PyInt(i)

(***************************************************************************)
(* C1: the ids of the requests sent through _rpc by one client are exactly *)
(* 1, 2, ..., N in issuance order: the id starts at 1, grows by one on     *)
(* every call, and is never reused.                                        *)
(***************************************************************************)
C1_IdsCountUp == \A i \in 1..Len(rpcIds) : rpcIds[i] = i

(***************************************************************************)
(* C2: a batch of k calls returns k entries, and an element whose response *)
(* object carries `error` is reported as an error in its own position, not *)
(* as a value a successful call could have returned (such as None), while  *)
(* the other elements are returned as their values.  Stated for replies    *)
(* that list the response objects in the order of their ids.               *)
(***************************************************************************)
C2_BatchReportsEachError ==
  (BatchAnswered /\ InIdOrder) =>
    /\ outcome.kind = "return"
    /\ Len(outcome.value.l) = Len(call.args)
    /\ \A i \in 1..Len(call.args) :
         IF Has(reply.body.l[i], "error")
         THEN outcome.value.l[i].t \notin JsonTypes
         ELSE outcome.value.l[i] = reply.body.l[i].d["result"]

(***************************************************************************)
(* C3: when the response object of a single call contains an `error` key,  *)
(* the call raises the RPC error carrying that error and returns no value, *)
(* also when the response contains a `result` key; this holds for every    *)
(* facade method over _rpc.                                                *)
(***************************************************************************)
C3_ErrorKeyRaises ==
  (call.op \in RpcOps /\ ResponseObject /\ Has(reply.body, "error")) =>
    /\ outcome = Raise("Exception", "RPC error: ", reply.body.d["error"])
    /\ rpcOut = outcome
    /\ ~mapped

C3_Witness ==
  /\ call.op = "get_block_by_slot"
  /\ ResponseObject
  /\ Has(reply.body, "error")
  /\ Has(reply.body, "result")
  /\ reply.body.d["result"] # None
  /\ outcome.kind = "raise"

(***************************************************************************)
(* C4: every REST bridge operation whose response body has `success` false *)
(* ends in an explicit failure that carries the response's `error` field;  *)
(* none returns an ordinary value for such a response.                     *)
(***************************************************************************)
C4_BridgeFailureRaises ==
  (/\ call.op \in BridgeOps
   /\ ResponseObject
   /\ Has(reply.body, "success")
   /\ reply.body.d["success"] = PyBool(FALSE)) =>
    /\ outcome.kind = "raise"
    /\ outcome.arg = Get(reply.body, "error", None)

(***************************************************************************)
(* C5: for every lookup call, when the response has no `error` and its     *)
(* `result` is null, the call returns None and never attempts the typed    *)
(* mapping, so it never fails with a decode error.                         *)
(***************************************************************************)
C5_NullIsNotFound ==
  (/\ call.op \in LookupOps
   /\ ResponseObject
   /\ ~Has(reply.body, "error")
   /\ Has(reply.body, "result")
   /\ reply.body.d["result"] = None) =>
    /\ outcome = Return(None)
    /\ ~mapped

C5_Witness ==
  /\ call.op = "get_transaction"
  /\ ResponseObject
  /\ ~Has(reply.body, "error")
  /\ Has(reply.body, "result")
  /\ reply.body.d["result"] = None
  /\ outcome = Return(None)

(***************************************************************************)
(* C6: the request object built for a call has `jsonrpc` equal to "2.0"    *)
(* and has no `params` field at all when the call is made without params:  *)
(* for _rpc called with params=None and for batch elements that have no    *)
(* `params` key.                                                           *)
(***************************************************************************)
C6_AbsentParamsOmitted ==
  /\ call.op \in NoParamOps =>
       \A i \in 1..Len(sent) :
         /\ sent[i].json.d["jsonrpc"] = PyStr("2.0")
         /\ ~Has(sent[i].json, "params")
  /\ call.op = "batch" =>
       \A i \in 1..Len(call.args) :
         /\ sent[1].json.l[i].d["jsonrpc"] = PyStr("2.0")
         /\ ~Has(call.args[i], "params") => ~Has(sent[1].json.l[i], "params")

(***************************************************************************)
(* C7: the result batch returns at position i is the result of the         *)
(* response object whose id is the id given to calls[i], in whatever order *)
(* the server lists the response objects.                                  *)
(***************************************************************************)
C7_BatchMatchesById ==
  (BatchAnswered /\ outcome.kind = "return") =>
    /\ Len(outcome.value.l) = Len(call.args)
    /\ \A i \in 1..Len(call.args) :
         outcome.value.l[i] = Get(ResponseWithId(i), "result", None)

(***************************************************************************)
(* C8: every facade call sends exactly one HTTP request and then ends with *)
(* a value or an error; when the transport reports a failure or the        *)
(* response is an RPC error, the error is raised to the caller, with no    *)
(* second request and no error turned into a normal return value.          *)
(***************************************************************************)
\* The reply carries an RPC error: a response object with `error`, alone or
\* as an element of a batch response.
CarriesRpcError ==
  /\ ~TransportFailed
  /\ \/ /\ call.op \in RpcOps \cup {"batch"}
        /\ reply.body.t = "dict"
        /\ Has(reply.body, "error")
     \/ /\ call.op = "batch"
        /\ reply.body.t = "list"
        /\ \E i \in 1..Len(reply.body.l) :
             reply.body.l[i].t = "dict" /\ Has(reply.body.l[i], "error")

C8_OneRequestErrorsPropagate ==
  call.op # "none" =>
    /\ Len(sent) = 1
    /\ nreq = ncalls
    /\ outcome.kind \in {"return", "raise"}
    /\ (TransportFailed \/ CarriesRpcError) => outcome.kind = "raise"

(***************************************************************************)
(* C9: when the server answers a request with a response object without    *)
(* `error` whose `result` is X, _rpc returns exactly X, for X null, an     *)
(* integer, a string, an object or an array; a null X is returned as None, *)
(* not as an error.                                                        *)
(***************************************************************************)
C9_ResultRoundTrip ==
  (/\ call.op \in RpcOps
   /\ ResponseObject
   /\ ~Has(reply.body, "error")
   /\ Has(reply.body, "result")) =>
    /\ rpcOut = Return(reply.body.d["result"])
    /\ call.op \in UntypedOps => outcome = rpcOut

C9_Witness ==
  /\ call.op = "get_balance"
  /\ ResponseObject
  /\ ~Has(reply.body, "error")
  /\ Has(reply.body, "result")
  /\ reply.body.d["result"] = PyInt(0)
  /\ outcome = Return(PyInt(0))

(***************************************************************************)
(* C10: the typed mapping of a non-null result ignores extra fields: for   *)
(* every result object that contains all required fields, plus any other   *)
(* keys, the call returns the record built from the known fields, every    *)
(* absent optional field set to None.                                      *)
(***************************************************************************)
C10_ExtraFieldsIgnored ==
  (/\ call.op \in TypedOps
   /\ ResponseObject
   /\ ~Has(reply.body, "error")
   /\ Has(reply.body, "result")
   /\ reply.body.d["result"].t = "dict"
   /\ Required(ClassOf(call.op)) \subseteq DOMAIN reply.body.d["result"].d) =>
    outcome = Return(Instance(ClassOf(call.op),
                              [f \in Fields(ClassOf(call.op)) |->
                                 Get(reply.body.d["result"], f, None)]))

====
